---- MODULE Spec2Model ----
(***************************************************************************)
(* Model of the libmicrohttpd memory pool (src/microhttpd/memorypool.c).   *)
(*                                                                         *)
(* The pool is a byte buffer with two cursors: `pos' grows upwards from 0  *)
(* (head end) and `end' grows downwards from `size' (tail end).  Pointers  *)
(* into the buffer are modelled as byte offsets from pool->memory, NULL is *)
(* the value -1.  size_t is an unsigned integer of SizeBits bits, so every *)
(* size_t operation of the code is taken modulo 2^SizeBits.                *)
(*                                                                         *)
(* mhd_assert() is compiled out of a release build and aborts a debug       *)
(* build.  The assertions on the arguments of a call are the contract of   *)
(* the caller: a call is made only with arguments that satisfy them.  The  *)
(* assertions on the cursors (PoolAsserts) are what the pool itself has to *)
(* keep true; the model does not take them for granted, so a state where   *)
(* they fail is a state the release build goes on from.                    *)
(*                                                                         *)
(* The pool is single-threaded: the caller makes a call, `last' then holds *)
(* the call with its arguments and its return value, and the caller takes  *)
(* the result (Return) before it makes the next call.                      *)
(*                                                                         *)
(* The sizes are those of a small target: size_t has SizeBits bits, a      *)
(* pointer is one byte, and the 32 KiB above which MHD_pool_create maps    *)
(* the buffer are scaled down with them (MemScale), so that pools on both  *)
(* sides of the threshold are among those the model creates.               *)
(*                                                                         *)
(* MHD_basic_auth_get_username_password3 (src/microhttpd/basicauth.c) is   *)
(* modelled by SpecAuth.  The function does not use the pool: it works on  *)
(* the heap.  `auth' holds the call in progress, step by step: the request *)
(* it was given, the buffer BASE64Decode returned, the locals, the block   *)
(* obtained for the result, and the calls made to the C library.           *)
(* MHD_get_auth_rq_params_ and BASE64Decode are not part of the modelled   *)
(* sources: what they return is an input of the call.  The decoded buffer  *)
(* and the token it was decoded from are objects in memory, so             *)
(* sizeof(struct MHD_BasicAuthInfo) + decoded_len + 1 is below SIZE_MAX    *)
(* and the sizes of this function are plain integers.                      *)
(***************************************************************************)
EXTENDS Integers, Sequences, FiniteSets, TLC

(* ----------------------------- bounds ---------------------------------- *)

\* width of size_t in bits
SizeBits == 3

\* largest `max' passed to MHD_pool_create
MaxPoolSize == 6

\* largest number of blocks the callers hold at one time
MaxBlocks == 3

\* largest number of calls made on one pool in SpecBytes
MaxCalls == 4

\* largest number of calls made on one pool in SpecReset
MaxResetCalls == 2

\* largest token68.len of an Authorization header in SpecAuth
MaxTokenLen == 2

\* largest number of bytes BASE64Decode returns in SpecAuth
MaxDecodedLen == 3

(* ------------------------- platform constants -------------------------- *)

\* sizeof(void*) of the modelled target
SizeofVoidPtr == 1

ALIGN_SIZE == 2 * SizeofVoidPtr

\* number of values of size_t (SIZE_MAX + 1)
SIZE_MOD == 2 ^ SizeBits

SizeT == 0 .. (SIZE_MOD - 1)

\* the values of a uint8_t
UCHAR_MAX == 255

Byte == 0 .. UCHAR_MAX

NULL == -1

\* the sizes of the real target are scaled down to the modelled size_t:
\* MemScale bytes of the real target are one byte of the model
MemScale == 8 * 1024

\* the mmap() threshold of MHD_pool_create, 32 * 1024 bytes of the real
\* target: a pool of more than MMAP_THRESHOLD bytes is mapped
MMAP_THRESHOLD == (32 * 1024) \div MemScale

\* unsigned wrap-around of size_t arithmetic
Wrap(x) == x % SIZE_MOD

\* ROUND_TO_ALIGN without the rounding
ROUND_TO_ALIGN_id(n) == Wrap(n)

ROUND_TO_ALIGN(n) == (Wrap(n + (ALIGN_SIZE - 1)) \div ALIGN_SIZE) * ALIGN_SIZE

(* ------------------------------- state --------------------------------- *)

VARIABLES
  state,     \* lifecycle of the handle: "Uninitialised", "Active", "Destroyed"
  memory,    \* pool->memory: the buffer, a function 0..size-1 -> Byte
  size,      \* pool->size
  pos,       \* pool->pos
  end,       \* pool->end
  is_mmap,   \* pool->is_mmap
  blocks,    \* the blocks the callers hold in the current epoch
  overrun,   \* TRUE once a call has written outside the buffer
  last,      \* the last call: its name, arguments and return value, and
             \* the calls it made to obtain and to release memory
  hist,      \* history of the pool: see HistStep (SpecBytes) and SeqStep
             \* (SpecSeq); not followed in Spec and SpecReset
  ncalls,    \* number of calls made on the pool (not counted in Spec)
  auth       \* the call of MHD_basic_auth_get_username_password3 in
             \* progress: see SpecAuth; the pool calls leave it alone

vars ==
  <<state, memory, size, pos, end, is_mmap, blocks, overrun, last, hist,
    ncalls, auth>>

\* a call: its name, its return value, its arguments, and the calls it made
\* to the operating system and the C library to obtain and to release
\* memory, in the order it made them
CallOS(op, ret, p, n1, n2, fe, calls) ==
  [op |-> op, ret |-> ret, p |-> p, n1 |-> n1, n2 |-> n2, from_end |-> fe,
   os |-> calls]

Call(op, ret, p, n1, n2, fe) == CallOS(op, ret, p, n1, n2, fe, <<>>)

Block(p, n, fe) == [p |-> p, size |-> n, from_end |-> fe]

NoHist == [phase |-> "none", tb |-> Block(NULL, 0, TRUE), bytes |-> <<>>]

(* ------------------------- libc memory helpers ------------------------- *)

\* memset (&m[off], 0, len); bytes outside the buffer are not part of m
memset(m, off, len) ==
  [i \in DOMAIN m |-> IF off <= i /\ i < off + len THEN 0 ELSE m[i]]

\* memcpy (&m[dst], &m[src], len) for ranges that do not overlap
memcpy(m, dst, src, len) ==
  [i \in DOMAIN m |->
     IF dst <= i /\ i < dst + len /\ (src + (i - dst)) \in DOMAIN m
     THEN m[src + (i - dst)] ELSE m[i]]

\* a copy loop that runs from the last byte down: wrong for dst < src
RECURSIVE copy_down(_, _, _, _)
copy_down(m, dst, src, len) ==
  IF len = 0 THEN m
  ELSE copy_down([m EXCEPT ![dst + len - 1] = m[src + len - 1]],
                 dst, src, len - 1)

memmove_down(m, dst, src, len) == copy_down(m, dst, src, len)

\* memmove (&m[dst], &m[src], len): the source is read before it is written
memmove(m, dst, src, len) ==
  [i \in DOMAIN m |->
     IF dst <= i /\ i < dst + len THEN m[src + (i - dst)] ELSE m[i]]

\* a write of len bytes at off leaves the buffer
WritesOutside(off, len) == len > 0 /\ off + len > size

(* ---------------------- basic authentication: data -------------------- *)

\* the value of a local or of a byte that was never written
Indeterminate == 0 - 2

\* the character ':'
COLON == 58

\* the bytes a decoded token is made of: NUL, ':', 'a', 'b'
AuthBytes == {0, COLON, 97, 98}

\* params.bauth of a request: NULL, or the token68 of the header
NoParams == [null |-> TRUE, str_null |-> TRUE, len |-> 0]

Params(str_null, len) == [null |-> FALSE, str_null |-> str_null, len |-> len]

\* what MHD_get_auth_rq_params_ returns for a connection: NULL, or the
\* parameters of the Authorization header with their authentication type
NoRqParams == [null |-> TRUE, auth_type |-> "none", bauth |-> NoParams]

RqParams ==
  {NoRqParams}
    \cup {[null |-> FALSE, auth_type |-> "MHD_AUTHTYPE_DIGEST",
           bauth |-> NoParams]}
    \cup {[null |-> FALSE, auth_type |-> "MHD_AUTHTYPE_BASIC", bauth |-> b] :
            b \in {NoParams}
                    \cup {Params(sn, n) :
                            sn \in BOOLEAN, n \in 0 .. MaxTokenLen}}

\* the byte strings of at most n bytes
RECURSIVE BytesUpTo(_)
BytesUpTo(n) ==
  IF n = 0 THEN {<<>>}
  ELSE BytesUpTo(n - 1)
         \cup {Append(b, c) : b \in {x \in BytesUpTo(n - 1) : Len(x) = n - 1},
                              c \in AuthBytes}

\* what BASE64Decode returns: NULL, or a buffer of decoded bytes (that may
\* be empty)
DecodeResults ==
  {[null |-> TRUE, bytes |-> <<>>]}
    \cup {[null |-> FALSE, bytes |-> b] : b \in BytesUpTo(MaxDecodedLen)}

\* the state of a call that has not started
AuthStart ==
  [pc |-> "start",
   rq |-> NoRqParams,             \* the value of MHD_get_auth_rq_params_
   params |-> NoParams,
   decoded_null |-> TRUE,         \* NULL == decoded
   decoded |-> <<>>,              \* the bytes of the decoded buffer
   decoded_len |-> Indeterminate,
   dstate |-> "none",             \* the decoded buffer: none, live, freed
   colon |-> Indeterminate,       \* offset of colon in decoded, or NULL
   username_len |-> Indeterminate,
   password_pos |-> Indeterminate,
   password_len |-> Indeterminate,
   ret_null |-> TRUE,             \* NULL == ret
   bytes |-> <<>>,                \* the bytes that follow the struct *ret
   ret_username_len |-> Indeterminate,
   ret_password |-> Indeterminate, \* offset from ret->username, or NULL
   ret_password_len |-> Indeterminate,
   fault |-> FALSE,               \* a write outside the block of ret, or
                                  \* a read of the freed decoded buffer
   os |-> <<>>,                   \* the calls made to the C library
   result |-> "pending"]          \* the value returned: "NULL" or "ret"

(* ------------------------------ Init ----------------------------------- *)

Init ==
  /\ state = "Uninitialised"
  /\ memory = <<>>
  /\ size = 0
  /\ pos = 0
  /\ end = 0
  /\ is_mmap = FALSE
  /\ blocks = {}
  /\ overrun = FALSE
  /\ last = Call("none", NULL, NULL, 0, 0, FALSE)
  /\ hist = NoHist
  /\ ncalls = 0
  /\ auth = AuthStart

(* --------------------------- entry assertions -------------------------- *)

\* mhd_assert (pool->end >= pool->pos);
\* mhd_assert (pool->size >= pool->end - pool->pos);
PoolAsserts == end >= pos /\ size >= Wrap(end - pos)

\* the pool can take a call: it is alive, no call has written outside the
\* buffer (nothing is known of the program after that), and the caller has
\* taken the result of the last call
Usable == state = "Active" /\ ~overrun /\ last.op = "none"

(* --------------------------- MHD_pool_create --------------------------- *)

\* the buffer mmap() returns is zero-filled.  The one malloc() returns holds
\* indeterminate bytes; the pool never looks at them, it only copies and
\* clears them, so two contents stand for all: every byte zero (ZeroBuffer),
\* and every byte different from every other and from zero (MarkedBuffer)
ZeroBuffer(m) == [i \in 0 .. (m - 1) |-> 0]

MarkedBuffer(m) == [i \in 0 .. (m - 1) |-> i + 1]

FreshBuffers(m, mapped) ==
  IF mapped THEN {ZeroBuffer(m)} ELSE {ZeroBuffer(m), MarkedBuffer(m)}

\* have_mmap: MAP_ANONYMOUS or _WIN32 is defined; handle_ok, mmap_ok and
\* malloc_ok: the outcome of malloc (sizeof (struct MemoryPool)), of mmap()
\* and of malloc (max); buf: the contents of the buffer obtained
\* MHD_pool_create with < for <= in the test of the threshold
create_calls_lt(m, have_mmap, handle_ok, mmap_ok, malloc_ok) ==
  LET tried == have_mmap /\ ~(m < MMAP_THRESHOLD)
      mapped == tried /\ mmap_ok
  IN
  IF ~handle_ok THEN <<"malloc(pool) failed">>
  ELSE <<"malloc(pool)">>
       \o (IF ~tried THEN <<>>
           ELSE IF mmap_ok THEN <<"mmap">> ELSE <<"mmap failed">>)
       \o (IF mapped THEN <<>>
           ELSE IF malloc_ok THEN <<"malloc(max)">>
           ELSE <<"malloc(max) failed", "free(pool)">>)

\* the calls MHD_pool_create makes: malloc() of the handle, mmap() of a pool
\* above the threshold where the build has it, malloc() of the buffer when
\* there is no mapping, free() of the handle when there is no buffer
create_calls(m, have_mmap, handle_ok, mmap_ok, malloc_ok) ==
  LET tried == have_mmap /\ ~(m <= MMAP_THRESHOLD)
      mapped == tried /\ mmap_ok
  IN
  IF ~handle_ok THEN <<"malloc(pool) failed">>
  ELSE <<"malloc(pool)">>
       \o (IF ~tried THEN <<>>
           ELSE IF mmap_ok THEN <<"mmap">> ELSE <<"mmap failed">>)
       \o (IF mapped THEN <<>>
           ELSE IF malloc_ok THEN <<"malloc(max)">>
           ELSE <<"malloc(max) failed", "free(pool)">>)

\* the call record of MHD_pool_create holds in n2 whether the build has
\* mmap() (1) or not (0)
MHD_pool_create(max, have_mmap, handle_ok, mmap_ok, malloc_ok, buf) ==
  LET m == ROUND_TO_ALIGN(max)
      build == IF have_mmap THEN 1 ELSE 0
      calls == create_calls(m, have_mmap, handle_ok, mmap_ok, malloc_ok)
      mapped == \E i \in DOMAIN calls : calls[i] = "mmap"
      failed == \E i \in DOMAIN calls :
                  calls[i] \in {"malloc(pool) failed", "malloc(max) failed"}
  IN
  /\ state = "Uninitialised"
  /\ last.op = "none"
  /\ IF failed
     THEN /\ last' = CallOS("create", NULL, NULL, max, build, FALSE, calls)
          /\ UNCHANGED <<state, memory, size, pos, end, is_mmap, blocks,
                         overrun, auth>>
     ELSE /\ state' = "Active"
          /\ buf \in FreshBuffers(m, mapped)
          /\ memory' = buf
          /\ is_mmap' = mapped
          /\ pos' = 0
          /\ end' = m
          /\ size' = m
          /\ blocks' = {}
          /\ last' = CallOS("create", 0, NULL, max, build, FALSE, calls)
          /\ UNCHANGED <<overrun, auth>>

(* --------------------------- MHD_pool_destroy -------------------------- *)

\* MHD_pool_destroy with the test of is_mmap the wrong way round
destroy_calls_swapped ==
  <<IF is_mmap THEN "free(memory)" ELSE "munmap">> \o <<"free(pool)">>

\* the calls MHD_pool_destroy makes
destroy_calls ==
  <<IF ~is_mmap THEN "free(memory)" ELSE "munmap">> \o <<"free(pool)">>

MHD_pool_destroy ==
  /\ Usable
  /\ state' = "Destroyed"
  /\ blocks' = {}
  /\ last' = CallOS("destroy", NULL, 0, 0, 0, FALSE, destroy_calls)
  /\ UNCHANGED <<memory, size, pos, end, is_mmap, overrun, auth>>

\* if (NULL == pool) return;
MHD_pool_destroy_null ==
  /\ state = "Uninitialised"
  /\ last.op = "none"
  /\ last' = Call("destroy", NULL, NULL, 0, 0, FALSE)
  /\ UNCHANGED <<state, memory, size, pos, end, is_mmap, blocks, overrun,
                 auth>>

(* --------------------------- MHD_pool_get_free ------------------------- *)

get_free == Wrap(end - pos)

MHD_pool_get_free ==
  /\ Usable
  /\ last' = Call("get_free", get_free, NULL, 0, 0, FALSE)
  /\ UNCHANGED <<state, memory, size, pos, end, is_mmap, blocks, overrun,
                 auth>>

(* --------------------------- MHD_pool_allocate ------------------------- *)

\* what a call computes: the return value, the new cursors, the new buffer
\* contents and whether it wrote outside the buffer
Result(ret, p, e, m, out) ==
  [ret |-> ret, pos |-> p, end |-> e, memory |-> m, out |-> out]

Failure == Result(NULL, pos, end, memory, FALSE)

\* allocate with >= for > in the test for space
allocate_ge(sz, from_end) ==
  LET asize == ROUND_TO_ALIGN(sz) IN
  IF asize = 0 /\ sz # 0 THEN Failure
  ELSE IF Wrap(pos + asize) >= end \/ Wrap(pos + asize) < pos THEN Failure
  ELSE IF from_end
       THEN Result(Wrap(end - asize), pos, Wrap(end - asize), memory, FALSE)
       ELSE Result(pos, Wrap(pos + asize), end, memory, FALSE)

allocate(sz, from_end) ==
  LET asize == ROUND_TO_ALIGN(sz) IN
  IF asize = 0 /\ sz # 0 THEN Failure
  ELSE IF Wrap(pos + asize) > end \/ Wrap(pos + asize) < pos THEN Failure
  ELSE IF from_end
       THEN Result(Wrap(end - asize), pos, Wrap(end - asize), memory, FALSE)
       ELSE Result(pos, Wrap(pos + asize), end, memory, FALSE)

MHD_pool_allocate(sz, from_end) ==
  LET r == allocate(sz, from_end)
      held == IF r.ret = NULL THEN blocks
              ELSE blocks \cup {Block(r.ret, sz, from_end)}
  IN
  /\ Usable
  /\ Cardinality(held) <= MaxBlocks
  /\ pos' = r.pos
  /\ end' = r.end
  /\ memory' = r.memory
  /\ overrun' = r.out
  /\ blocks' = held
  /\ last' = Call("allocate", r.ret, NULL, sz, 0, from_end)
  /\ UNCHANGED <<state, size, is_mmap, auth>>

(* -------------------------- MHD_pool_reallocate ------------------------ *)

\* mhd_assert (old != NULL || old_size == 0);
\* mhd_assert (old == NULL || pool->memory <= (uint8_t*)old);
\* mhd_assert (old == NULL || pool->memory + pool->size >= (uint8_t*)old + old_size);
\* mhd_assert (old == NULL || pool->memory + pool->pos > (uint8_t*)old);
ReallocAsserts(old, old_size) ==
  /\ old # NULL \/ old_size = 0
  /\ old = NULL \/ 0 <= old
  /\ old = NULL \/ size >= old + old_size
  /\ old = NULL \/ pos > old

\* reallocate that moves pos before it tests new_apos against end
reallocate_early(old, old_size, new_size) ==
  IF Wrap(new_size + 2 * ALIGN_SIZE) < new_size THEN Failure
  ELSE IF old_size # 0 /\ pos = ROUND_TO_ALIGN(Wrap(old + old_size))
  THEN LET new_apos == ROUND_TO_ALIGN(Wrap(old + new_size)) IN
       IF new_apos > end THEN Result(NULL, new_apos, end, memory, FALSE)
       ELSE Result(old, new_apos, end,
                   IF old_size > new_size
                   THEN memset(memory, old + new_size, old_size - new_size)
                   ELSE memory,
                   FALSE)
  ELSE LET asize == ROUND_TO_ALIGN(new_size)
           new_blc == pos
       IN
       IF asize > Wrap(end - pos) THEN Failure
       ELSE Result(new_blc, Wrap(pos + asize), end,
                   IF old_size # 0
                   THEN memset(memcpy(memory, new_blc, old, old_size),
                               old, old_size)
                   ELSE memory,
                   old_size # 0 /\ WritesOutside(new_blc, old_size))

\* reallocate that always allocates a new block
reallocate_move(old, old_size, new_size) ==
  IF Wrap(new_size + 2 * ALIGN_SIZE) < new_size THEN Failure
  ELSE LET asize == ROUND_TO_ALIGN(new_size)
           new_blc == pos
       IN
       IF asize > Wrap(end - pos) THEN Failure
       ELSE Result(new_blc, Wrap(pos + asize), end,
                   IF old_size # 0
                   THEN memset(memcpy(memory, new_blc, old, old_size),
                               old, old_size)
                   ELSE memory,
                   old_size # 0 /\ WritesOutside(new_blc, old_size))

reallocate(old, old_size, new_size) ==
  IF Wrap(new_size + 2 * ALIGN_SIZE) < new_size THEN Failure
  ELSE IF old_size # 0 /\ pos = ROUND_TO_ALIGN(Wrap(old + old_size))
  THEN \* "old" block is the last allocated block
       LET new_apos == ROUND_TO_ALIGN(Wrap(old + new_size)) IN
       IF new_apos > end THEN Failure
       ELSE Result(old, new_apos, end,
                   IF old_size > new_size
                   THEN memset(memory, old + new_size, old_size - new_size)
                   ELSE memory,
                   FALSE)
  ELSE \* need to allocate new block
       LET asize == ROUND_TO_ALIGN(new_size)
           new_blc == pos
       IN
       IF asize > Wrap(end - pos) THEN Failure
       ELSE Result(new_blc, Wrap(pos + asize), end,
                   IF old_size # 0
                   THEN memset(memcpy(memory, new_blc, old, old_size),
                               old, old_size)
                   ELSE memory,
                   old_size # 0 /\ WritesOutside(new_blc, old_size))

\* the callers reallocate a block they hold from the head end, with the
\* size they hold it for, or pass old = NULL with old_size = 0
ReallocArgs ==
  {<<NULL, 0>>} \cup {<<b.p, b.size>> : b \in {c \in blocks : ~c.from_end}}

MHD_pool_reallocate(old, old_size, new_size) ==
  LET r == reallocate(old, old_size, new_size)
      kept == IF old = NULL THEN blocks
              ELSE blocks \ {Block(old, old_size, FALSE)}
      held == IF r.ret = NULL THEN blocks
              ELSE kept \cup {Block(r.ret, new_size, FALSE)}
  IN
  /\ Usable
  /\ ReallocAsserts(old, old_size)
  /\ Cardinality(held) <= MaxBlocks
  /\ pos' = r.pos
  /\ end' = r.end
  /\ memory' = r.memory
  /\ overrun' = r.out
  /\ blocks' = held
  /\ last' = Call("reallocate", r.ret, old, old_size, new_size, FALSE)
  /\ UNCHANGED <<state, size, is_mmap, auth>>

(* ----------------------------- MHD_pool_reset -------------------------- *)

\* mhd_assert (keep != NULL || copy_bytes == 0);
\* mhd_assert (keep == NULL || pool->memory <= (uint8_t*)keep);
\* mhd_assert (keep == NULL || pool->memory + pool->size >= (uint8_t*)keep + copy_bytes);
ResetAsserts(keep, copy_bytes) ==
  /\ keep # NULL \/ copy_bytes = 0
  /\ keep = NULL \/ 0 <= keep
  /\ keep = NULL \/ size >= keep + copy_bytes

reset(keep, copy_bytes, new_size) ==
  LET moved == IF keep # NULL /\ keep # 0 /\ copy_bytes # 0
               THEN memmove(memory, 0, keep, copy_bytes)
               ELSE memory
      cleared == IF size > copy_bytes
                 THEN memset(moved, copy_bytes, Wrap(size - copy_bytes))
                 ELSE moved
  IN
  Result(IF keep # NULL THEN 0 ELSE NULL,
         IF keep # NULL THEN ROUND_TO_ALIGN(new_size) ELSE pos,
         size,
         cleared,
         FALSE)

MHD_pool_reset(keep, copy_bytes, new_size) ==
  LET r == reset(keep, copy_bytes, new_size) IN
  /\ Usable
  /\ ResetAsserts(keep, copy_bytes)
  /\ pos' = r.pos
  /\ end' = r.end
  /\ memory' = r.memory
  /\ overrun' = r.out
  /\ blocks' = IF keep = NULL THEN {} ELSE {Block(0, new_size, FALSE)}
  /\ last' = Call("reset", r.ret, keep, copy_bytes, new_size, FALSE)
  /\ UNCHANGED <<state, size, is_mmap, auth>>

(* ------------------------------ the caller ----------------------------- *)

NoCall == Call("none", NULL, NULL, 0, 0, FALSE)

\* the history of the pool, for the calls that are followed: "fresh" until
\* the first allocation, "tail" once the first allocation was a successful
\* one from the end (tb is the block and bytes what it held then), "head"
\* after that while every call for the head end succeeds, "other" in every
\* other case.  c is the call just made, the buffer is the one before it.
Spoilt == [phase |-> "other", tb |-> Block(NULL, 0, TRUE), bytes |-> <<>>]

HistStep(c) ==
  IF c.op = "allocate" /\ c.from_end
  THEN IF hist.phase = "fresh" /\ c.ret # NULL /\ c.n1 # 0
       THEN [phase |-> "tail", tb |-> Block(c.ret, c.n1, TRUE),
             bytes |-> [i \in 1 .. c.n1 |-> memory[c.ret + i - 1]]]
       ELSE hist
  ELSE IF c.op \in {"allocate", "reallocate"}
  THEN IF hist.phase \in {"tail", "head"} /\ c.ret # NULL
       THEN [hist EXCEPT !.phase = "head"]
       ELSE Spoilt
  ELSE IF c.op = "reset" THEN Spoilt
  ELSE hist

\* the caller takes the result of the call it made
Return ==
  /\ last.op # "none"
  /\ last' = NoCall
  /\ UNCHANGED <<state, memory, size, pos, end, is_mmap, blocks, overrun,
                 auth>>

(* ---------------------------- specification ---------------------------- *)

AnyCreate(bufs) ==
  \E max \in 0 .. MaxPoolSize, buf \in bufs,
     have_mmap, handle_ok, mmap_ok, malloc_ok \in BOOLEAN :
    MHD_pool_create(max, have_mmap, handle_ok, mmap_ok, malloc_ok, buf)

AnyAllocate ==
  \E sz \in SizeT, from_end \in BOOLEAN : MHD_pool_allocate(sz, from_end)

AnyReallocate ==
  \E a \in ReallocArgs, new_size \in SizeT :
    MHD_pool_reallocate(a[1], a[2], new_size)

\* keep is any place of the buffer
AnyReset ==
  \E keep \in {NULL} \cup (0 .. size), copy_bytes \in 0 .. size,
     new_size \in SizeT :
    MHD_pool_reset(keep, copy_bytes, new_size)

\* keep is a block the callers hold, kept whole, or NULL
KeepArgs == {<<NULL, 0>>} \cup {<<b.p, b.size>> : b \in blocks}

AnyResetHeld ==
  \E a \in KeepArgs, new_size \in SizeT : MHD_pool_reset(a[1], a[2], new_size)

\* Spec: the cursors and the blocks, over every sequence of calls; the
\* buffers are zero-filled and a reset keeps a block the callers hold
Create ==
  AnyCreate({ZeroBuffer(m) : m \in SizeT}) /\ UNCHANGED <<ncalls, hist>>

Destroy == MHD_pool_destroy /\ UNCHANGED <<ncalls, hist>>

DestroyNull == MHD_pool_destroy_null /\ UNCHANGED <<ncalls, hist>>

GetFree == MHD_pool_get_free /\ UNCHANGED <<ncalls, hist>>

Allocate == AnyAllocate /\ UNCHANGED <<ncalls, hist>>

Reallocate == AnyReallocate /\ UNCHANGED <<ncalls, hist>>

Reset == AnyResetHeld /\ UNCHANGED <<ncalls, hist>>

TakeResult == Return /\ UNCHANGED <<ncalls, hist>>

Next ==
  \/ Create
  \/ Destroy
  \/ DestroyNull
  \/ GetFree
  \/ Allocate
  \/ Reallocate
  \/ Reset
  \/ TakeResult

Spec == Init /\ [][Next]_vars

\* SpecBytes: the contents of the buffer through allocate and reallocate,
\* over the sequences of at most MaxCalls calls on a pool whose bytes can
\* all be told apart
CreateB ==
  /\ AnyCreate({MarkedBuffer(m) : m \in SizeT})
  /\ hist' = IF last'.ret = NULL THEN hist
              ELSE [NoHist EXCEPT !.phase = "fresh"]
  /\ UNCHANGED ncalls

DestroyB ==
  /\ ncalls < MaxCalls
  /\ MHD_pool_destroy
  /\ ncalls' = ncalls + 1
  /\ hist' = HistStep(last')

GetFreeB ==
  /\ ncalls < MaxCalls
  /\ MHD_pool_get_free
  /\ ncalls' = ncalls + 1
  /\ hist' = HistStep(last')

AllocateB ==
  /\ ncalls < MaxCalls
  /\ AnyAllocate
  /\ ncalls' = ncalls + 1
  /\ hist' = HistStep(last')

ReallocateB ==
  /\ ncalls < MaxCalls
  /\ AnyReallocate
  /\ ncalls' = ncalls + 1
  /\ hist' = HistStep(last')

NextBytes ==
  \/ CreateB
  \/ DestroyB
  \/ DestroyNull
  \/ GetFreeB
  \/ AllocateB
  \/ ReallocateB
  \/ TakeResult

SpecBytes == Init /\ [][NextBytes]_vars

\* SpecReset: the contents of the buffer through every call, MHD_pool_reset
\* included, over the sequences of at most MaxResetCalls calls on a pool
\* whose bytes can all be told apart
DestroyR ==
  /\ ncalls < MaxResetCalls
  /\ MHD_pool_destroy
  /\ ncalls' = ncalls + 1
  /\ UNCHANGED hist

GetFreeR ==
  /\ ncalls < MaxResetCalls
  /\ MHD_pool_get_free
  /\ ncalls' = ncalls + 1
  /\ UNCHANGED hist

AllocateR ==
  /\ ncalls < MaxResetCalls
  /\ AnyAllocate
  /\ ncalls' = ncalls + 1
  /\ UNCHANGED hist

ReallocateR ==
  /\ ncalls < MaxResetCalls
  /\ AnyReallocate
  /\ ncalls' = ncalls + 1
  /\ UNCHANGED hist

ResetR ==
  /\ ncalls < MaxResetCalls
  /\ AnyReset
  /\ ncalls' = ncalls + 1
  /\ UNCHANGED hist

NextReset ==
  \/ CreateB
  \/ DestroyR
  \/ DestroyNull
  \/ GetFreeR
  \/ AllocateR
  \/ ReallocateR
  \/ ResetR
  \/ TakeResult

SpecReset == Init /\ [][NextReset]_vars

\* SpecSeq: what a call does after the calls made before it, over the
\* sequences of at most MaxCalls calls on a zero-filled pool, a reset
\* keeping a block the callers hold.  hist follows two sequences of calls:
\*   "failed"            an allocate or reallocate has failed for lack of
\*                       space,
\*   "reset", "reset00"  and a reset has followed it at once ("reset00":
\*                       with keep = NULL and new_size = 0);
\*   "alloc"             p = allocate (n, false) has succeeded, pos1 and
\*                       end1 are the cursors it left,
\*   "re1"               and q = reallocate (p, n, m) has followed it at
\*                       once and succeeded, n and m rounding to the same,
\*   "re2"               and r = reallocate (q, m, n) has followed that at
\*                       once and succeeded.
\* MHD_pool_get_free may come between the calls of a sequence.
SeqHist(phase, p, n, q, m, pos1, end1) ==
  [phase |-> phase, p |-> p, n |-> n, q |-> q, m |-> m, pos1 |-> pos1,
   end1 |-> end1]

NoSeq == SeqHist("none", NULL, 0, NULL, 0, 0, 0)

\* n rounded up to a multiple of ALIGN_SIZE, in the integers
roundup(n) == ((n + ALIGN_SIZE - 1) \div ALIGN_SIZE) * ALIGN_SIZE

\* the call c returned NULL past the test for a size too large for size_t
LackOfSpace(c) ==
  /\ c.ret = NULL
  /\ \/ c.op = "allocate" /\ ~(ROUND_TO_ALIGN(c.n1) = 0 /\ c.n1 # 0)
     \/ c.op = "reallocate" /\ ~(Wrap(c.n2 + 2 * ALIGN_SIZE) < c.n2)

\* c is the call just made, pos' and end' the cursors it left
SeqStep(c) ==
  IF c.op = "get_free" THEN hist
  ELSE IF LackOfSpace(c) THEN [NoSeq EXCEPT !.phase = "failed"]
  ELSE IF c.op = "reset" /\ hist.phase = "failed"
  THEN [NoSeq EXCEPT !.phase = IF c.p = NULL /\ c.n2 = 0
                               THEN "reset00" ELSE "reset"]
  ELSE IF c.op = "allocate" /\ ~c.from_end /\ c.ret # NULL
  THEN SeqHist("alloc", c.ret, c.n1, NULL, 0, pos', end')
  ELSE IF /\ c.op = "reallocate" /\ c.ret # NULL /\ hist.phase = "alloc"
          /\ c.p = hist.p /\ c.n1 = hist.n
          /\ roundup(c.n2) = roundup(hist.n)
  THEN [hist EXCEPT !.phase = "re1", !.q = c.ret, !.m = c.n2]
  ELSE IF /\ c.op = "reallocate" /\ c.ret # NULL /\ hist.phase = "re1"
          /\ c.p = hist.q /\ c.n1 = hist.m /\ c.n2 = hist.n
  THEN [hist EXCEPT !.phase = "re2"]
  ELSE NoSeq

CreateS ==
  /\ AnyCreate({ZeroBuffer(m) : m \in SizeT})
  /\ hist' = NoSeq
  /\ UNCHANGED ncalls

DestroyS ==
  /\ ncalls < MaxCalls
  /\ MHD_pool_destroy
  /\ ncalls' = ncalls + 1
  /\ hist' = SeqStep(last')

GetFreeS ==
  /\ ncalls < MaxCalls
  /\ MHD_pool_get_free
  /\ ncalls' = ncalls + 1
  /\ hist' = SeqStep(last')

AllocateS ==
  /\ ncalls < MaxCalls
  /\ AnyAllocate
  /\ ncalls' = ncalls + 1
  /\ hist' = SeqStep(last')

ReallocateS ==
  /\ ncalls < MaxCalls
  /\ AnyReallocate
  /\ ncalls' = ncalls + 1
  /\ hist' = SeqStep(last')

ResetS ==
  /\ ncalls < MaxCalls
  /\ AnyResetHeld
  /\ ncalls' = ncalls + 1
  /\ hist' = SeqStep(last')

NextSeq ==
  \/ CreateS
  \/ DestroyS
  \/ DestroyNull
  \/ GetFreeS
  \/ AllocateS
  \/ ReallocateS
  \/ ResetS
  \/ TakeResult

SpecSeq == Init /\ [][NextSeq]_vars

(* ------------- MHD_basic_auth_get_username_password3 -------------------- *)

\* the variables of the pool, which the function does not touch
PoolVars ==
  <<state, memory, size, pos, end, is_mmap, blocks, overrun, last, hist,
    ncalls>>

\* the offset of the last byte c among the first n bytes of s, or NULL
memchr_last(s, c, n) ==
  LET hits == {i \in 0 .. (n - 1) : s[i + 1] = c}
  IN  IF hits = {} THEN NULL ELSE CHOOSE i \in hits : \A j \in hits : j <= i

\* memchr (s, c, n): the offset of the first byte c among the first n bytes
\* of s, or NULL
memchr(s, c, n) ==
  LET hits == {i \in 0 .. (n - 1) : s[i + 1] = c}
  IN  IF hits = {} THEN NULL ELSE CHOOSE i \in hits : \A j \in hits : i <= j

\* b[off] = v; a byte outside the block is not part of b
store(b, off, v) ==
  IF off \in 0 .. (Len(b) - 1) THEN [b EXCEPT ![off + 1] = v] ELSE b

\* a write of len bytes at off leaves the block b
StoreOutside(b, off, len) == len > 0 /\ (off < 0 \/ off + len > Len(b))

\* free (decoded)
free_decoded(a) ==
  [a EXCEPT !.dstate = "freed",
            !.os = Append(@, "free(decoded)"),
            !.fault = @ \/ a.dstate # "live"]

\* return NULL
return_NULL(a) == [a EXCEPT !.pc = "done", !.result = "NULL"]

get_rq_bauth_params(rq) ==
  IF rq.null \/ rq.auth_type # "MHD_AUTHTYPE_BASIC"
  THEN NoParams
  ELSE rq.bauth

\* the function up to the call of BASE64Decode
GetParams ==
  /\ auth.pc = "start"
  /\ \E rq \in RqParams :
       LET params == get_rq_bauth_params(rq)
           a == [auth EXCEPT !.rq = rq, !.params = params]
       IN  auth' = IF params.null THEN return_NULL(a)
                   ELSE IF params.str_null \/ params.len = 0
                        THEN return_NULL(a)
                        ELSE [a EXCEPT !.pc = "decode"]
  /\ UNCHANGED PoolVars

\* the call of BASE64Decode and the test of what it returned
Decode ==
  /\ auth.pc = "decode"
  /\ \E d \in DecodeResults :
       LET a == IF d.null
                THEN [auth EXCEPT !.os = Append(@, "BASE64Decode failed")]
                ELSE [auth EXCEPT !.decoded_null = FALSE,
                                  !.decoded = d.bytes,
                                  !.decoded_len = Len(d.bytes),
                                  !.dstate = "live",
                                  !.os = Append(@, "BASE64Decode")]
       IN  auth' = IF a.decoded_null \/ a.decoded_len = 0
                   THEN return_NULL(IF ~a.decoded_null THEN free_decoded(a)
                                    ELSE a)
                   ELSE [a EXCEPT !.pc = "colon"]
  /\ UNCHANGED PoolVars

\* the search of the colon and the lengths of the two parts
FindColon ==
  /\ auth.pc = "colon"
  /\ LET colon == memchr(auth.decoded, COLON, auth.decoded_len)
         a == [auth EXCEPT !.colon = colon,
                           !.fault = @ \/ auth.dstate # "live"]
     IN  auth' =
           IF colon # NULL
           THEN LET username_len == colon
                    password_pos == username_len + 1
                    password_len == a.decoded_len - password_pos
                IN  [a EXCEPT !.username_len = username_len,
                              !.password_pos = password_pos,
                              !.password_len = password_len,
                              !.pc = "alloc"]
           ELSE [a EXCEPT !.username_len = a.decoded_len, !.pc = "alloc"]
  /\ UNCHANGED PoolVars

\* malloc (sizeof(struct MHD_BasicAuthInfo) + decoded_len + 1): the bytes
\* that follow the struct, none of them written yet
Malloc ==
  /\ auth.pc = "alloc"
  /\ \E ok \in BOOLEAN :
       auth' =
         IF ~ok
         THEN return_NULL(free_decoded(
                [auth EXCEPT !.os = Append(@, "malloc(ret) failed")]))
         ELSE [auth EXCEPT
                 !.ret_null = FALSE,
                 !.bytes = [i \in 1 .. (auth.decoded_len + 1) |->
                              Indeterminate],
                 !.os = Append(@, "malloc(ret)"),
                 !.pc = "fill"]
  /\ UNCHANGED PoolVars

\* the copy of the decoded bytes, the two terminators and the fields of *ret
Fill ==
  /\ auth.pc = "fill"
  /\ LET \* ret->username = (char *) (ret + 1); memcpy (...)
         a1 == [auth EXCEPT
                  !.bytes = [i \in DOMAIN @ |->
                               IF i <= auth.decoded_len
                               THEN auth.decoded[i] ELSE @[i]],
                  !.fault = \/ @
                            \/ auth.dstate # "live"
                            \/ StoreOutside(auth.bytes, 0, auth.decoded_len)]
         a2 == free_decoded(a1)
         \* ret->username[username_len] = 0
         a3 == [a2 EXCEPT
                  !.bytes = store(@, a2.username_len, 0),
                  !.fault = @ \/ StoreOutside(a2.bytes, a2.username_len, 1),
                  !.ret_username_len = a2.username_len]
         \* ret->password[password_len] = 0
         a4 == IF a3.colon # NULL
               THEN [a3 EXCEPT
                       !.ret_password = a3.password_pos,
                       !.bytes = store(@, a3.password_pos + a3.password_len,
                                       0),
                       !.fault = @ \/ StoreOutside(a3.bytes,
                                                   a3.password_pos
                                                     + a3.password_len, 1),
                       !.ret_password_len = a3.password_len]
               ELSE [a3 EXCEPT !.ret_password = NULL,
                               !.ret_password_len = 0]
     IN  auth' = [a4 EXCEPT !.pc = "done", !.result = "ret"]
  /\ UNCHANGED PoolVars

\* the caller takes the result; the next request is handled
NextRequest ==
  /\ auth.pc = "done"
  /\ auth' = AuthStart
  /\ UNCHANGED PoolVars

NextAuth ==
  \/ GetParams
  \/ Decode
  \/ FindColon
  \/ Malloc
  \/ Fill
  \/ NextRequest

SpecAuth == Init /\ [][NextAuth]_vars

(* ------------------------------ properties ----------------------------- *)

\* round(n) as the specification defines it: n rounded up to a multiple of
\* the alignment quantum, 0 when that leaves the size domain
round(n) ==
  LET r == ((n + ALIGN_SIZE - 1) \div ALIGN_SIZE) * ALIGN_SIZE
  IN IF r >= SIZE_MOD THEN 0 ELSE r

\* the bytes of a block: [p, p + round(size))
Range(b) == b.p .. (b.p + round(b.size) - 1)

\* C1: after any sequence of calls the cursors satisfy
\* 0 <= pos <= end <= size.
C1_CursorsOrdered ==
  state = "Active" => (0 <= pos /\ pos <= end /\ end <= size)

\* C2: the byte ranges of any two blocks held at the same time in one epoch
\* are disjoint.
C2_LiveBlocksDisjoint ==
  \A b1, b2 \in blocks : b1 # b2 => Range(b1) \cap Range(b2) = {}

\* C3: a block address returned by a successful allocate or reallocate is a
\* multiple of ALIGN_SIZE, lies in [memory, memory + size), and the block
\* ends at or before `end' (head end) or memory + size (tail end).
C3_ReturnedBlockInside ==
  (last.op \in {"allocate", "reallocate"} /\ last.ret # NULL) =>
    LET sz == IF last.op = "allocate" THEN last.n1 ELSE last.n2 IN
    /\ last.ret % ALIGN_SIZE = 0
    /\ 0 <= last.ret
    /\ last.ret < size
    /\ last.ret + round(sz) <= (IF last.from_end THEN size ELSE end)

\* C4: a reset with keep = NULL leaves pos = 0 and end = size, so that
\* MHD_pool_get_free() is size afterwards.
C4_NullResetIsFull ==
  (last.op = "reset" /\ last.p = NULL) =>
    (pos = 0 /\ end = size /\ get_free = size)

\* C5: a block allocated from the end before any call for the head end
\* keeps all its bytes through the allocate and reallocate calls for the
\* head end, as long as they all succeed.
C5_TailBlockUnchanged ==
  hist.phase = "head" =>
    \A i \in 1 .. hist.tb.size :
      /\ (hist.tb.p + i - 1) \in DOMAIN memory
      /\ memory[hist.tb.p + i - 1] = hist.bytes[i]

\* C6: when allocate or reallocate returns NULL, pos, end, size, is_mmap and
\* every byte of the buffer are what they were before the call.
C6_FailureChangesNothing ==
  [][(last'.op \in {"allocate", "reallocate"} /\ last'.ret = NULL) =>
       UNCHANGED <<pos, end, size, is_mmap, memory>>]_vars

\* a reallocate of a held block failed for lack of space in a pool that
\* holds bytes other than zero
C6_Witness ==
  /\ last.op = "reallocate"
  /\ last.ret = NULL
  /\ last.p # NULL
  /\ last.n2 + 2 * ALIGN_SIZE < SIZE_MOD
  /\ \E i \in DOMAIN memory : memory[i] # 0

\* C7: reset(keep, k, s) with keep # NULL returns memory, leaves in [0, k)
\* the bytes [keep, keep + k) held before, leaves every byte of [k, size)
\* zero, and sets pos = round(s) and end = size.
C7_ResetKeeps ==
  [][(last'.op = "reset" /\ last'.p # NULL) =>
       LET keep == last'.p
           k == last'.n1
           s == last'.n2
       IN
       /\ last'.ret = 0
       /\ \A i \in 0 .. (k - 1) : memory'[i] = memory[keep + i]
       /\ \A i \in k .. (size - 1) : memory'[i] = 0
       /\ pos' = round(s)
       /\ end' = size]_vars

\* a reset has moved down a range that overlaps its destination
C7_Witness ==
  /\ last.op = "reset"
  /\ last.p > 0
  /\ last.n1 > last.p
  /\ last.ret = 0
  /\ memory[0] # 0

\* C8: allocate fails exactly when round(size) wraps to 0 for a size that is
\* not 0 or round(size) > end - pos; from the head it returns the old pos
\* and adds round(size) to pos; from the end it takes round(size) off end
\* and returns the new end.
C8_Allocate ==
  [][last'.op = "allocate" =>
       LET sz == last'.n1
           asize == round(sz)
           ret == last'.ret
       IN
       /\ ret = NULL <=> ((asize = 0 /\ sz # 0) \/ asize > end - pos)
       /\ (ret # NULL /\ ~last'.from_end) =>
            (ret = pos /\ pos' = pos + asize /\ end' = end)
       /\ (ret # NULL /\ last'.from_end) =>
            (end' = end - asize /\ ret = end' /\ pos' = pos)
       /\ ret = NULL => (pos' = pos /\ end' = end)]_vars

\* an allocation from the end has taken exactly the bytes that were free
C8_Witness ==
  /\ last.op = "allocate"
  /\ last.from_end
  /\ last.ret # NULL
  /\ last.n1 > 0
  /\ pos = end

\* C9: MHD_pool_get_free() returns end - pos, never more than size, and
\* changes neither the cursors nor the buffer.
C9_GetFree ==
  [][last'.op = "get_free" =>
       /\ last'.ret = end - pos
       /\ last'.ret <= size
       /\ UNCHANGED <<pos, end, size, memory>>]_vars

\* C10: size, pos and end are multiples of ALIGN_SIZE in every state; size
\* is round(max) and no call changes it.
C10_Aligned ==
  [][/\ state' = "Active" =>
          (size' % ALIGN_SIZE = 0 /\ pos' % ALIGN_SIZE = 0
             /\ end' % ALIGN_SIZE = 0)
     /\ (state = "Active" /\ state' = "Active") => size' = size
     /\ (last'.op = "create" /\ last'.ret # NULL) => size' = round(last'.n1)
    ]_vars

\* an allocation of a size that is not a multiple of ALIGN_SIZE succeeded
\* from each end
C10_Witness ==
  /\ state = "Active"
  /\ last.op = "allocate"
  /\ last.ret # NULL
  /\ last.n1 % ALIGN_SIZE # 0
  /\ pos > 0
  /\ end < size

\* C11: after allocate or reallocate has failed for lack of space and a
\* reset has followed, allocate (n) from either end succeeds for every
\* n <= size - pos, pos being what the reset left; after the reset with
\* keep = NULL and new_size = 0 it succeeds for every n with
\* round(n) <= size.
C11_Recoverable ==
  [][(last'.op = "allocate" /\ hist.phase \in {"reset", "reset00"}) =>
       /\ last'.n1 <= size - pos => last'.ret # NULL
       /\ (hist.phase = "reset00" /\ roundup(last'.n1) <= size) =>
            last'.ret # NULL]_vars

\* C12: when p = allocate (n, false), q = reallocate (p, n, m) and
\* r = reallocate (q, m, n) all succeed and round(n) = round(m), then
\* q = r = p, pos after the last call is pos after the allocate, and end is
\* the same after each of the three calls.
C12_RoundTrip ==
  [][(/\ hist.phase = "re1" /\ last'.op = "reallocate" /\ last'.ret # NULL
      /\ last'.p = hist.q /\ last'.n1 = hist.m /\ last'.n2 = hist.n) =>
       /\ hist.q = hist.p
       /\ last'.ret = hist.p
       /\ pos' = hist.pos1
       /\ end = hist.end1
       /\ end' = hist.end1]_vars

\* the three calls have succeeded for two sizes that differ, on a pool
\* that held another block before them
C12_Witness ==
  /\ hist.phase = "re2"
  /\ last.op = "reallocate"
  /\ hist.n # hist.m
  /\ hist.p > 0

\* the call c made the call named f to the operating system or the C library
Made(c, f) == \E i \in DOMAIN c.os : c.os[i] = f

\* C13 as stated: MHD_pool_create tries mmap() only when the build has it
\* and round(max) > MMAP_THRESHOLD; it calls malloc (max) when there is no
\* mapping; it returns NULL, having freed the handle, only when malloc (max)
\* has failed as well; on success pos = 0, end = size = round(max), and
\* is_mmap is TRUE exactly when the buffer is the mapping.
C13_CreateAsStated ==
  last.op = "create" =>
    LET m == round(last.n1)
        tried == Made(last, "mmap") \/ Made(last, "mmap failed")
    IN
    /\ tried => (last.n2 = 1 /\ m > MMAP_THRESHOLD)
    /\ ~Made(last, "mmap") =>
         (Made(last, "malloc(max)") \/ Made(last, "malloc(max) failed"))
    /\ last.ret = NULL =>
         (/\ Made(last, "malloc(max) failed")
          /\ last.os[Len(last.os)] = "free(pool)")
    /\ last.ret # NULL =>
         (/\ state = "Active" /\ pos = 0 /\ end = m /\ size = m
          /\ is_mmap <=> Made(last, "mmap"))

\* C13, amended: MHD_pool_create returns NULL, having made no other call,
\* when malloc() of the handle fails.  When it has the handle it tries
\* mmap() exactly when the build has it and round(max) > MMAP_THRESHOLD; it
\* calls malloc (max) exactly when there is no mapping; it returns NULL,
\* having freed the handle, exactly when malloc (max) has failed; on success
\* pos = 0, end = size = round(max), and is_mmap is TRUE exactly when the
\* buffer is the mapping.
C13_Create ==
  last.op = "create" =>
    LET m == round(last.n1)
        tried == Made(last, "mmap") \/ Made(last, "mmap failed")
        heap == Made(last, "malloc(max)") \/ Made(last, "malloc(max) failed")
    IN
    IF Made(last, "malloc(pool) failed")
    THEN last.ret = NULL /\ Len(last.os) = 1 /\ state = "Uninitialised"
    ELSE /\ last.os[1] = "malloc(pool)"
         /\ tried <=> (last.n2 = 1 /\ m > MMAP_THRESHOLD)
         /\ heap <=> ~Made(last, "mmap")
         /\ last.ret = NULL <=> Made(last, "malloc(max) failed")
         /\ last.ret = NULL =>
              (last.os[Len(last.os)] = "free(pool)"
                 /\ state = "Uninitialised")
         /\ last.ret # NULL =>
              (/\ ~Made(last, "free(pool)")
               /\ state = "Active" /\ pos = 0 /\ end = m /\ size = m
               /\ is_mmap <=> Made(last, "mmap"))

\* a pool above the threshold has come from the heap after mmap() failed
C13_Witness ==
  /\ last.op = "create"
  /\ last.os = <<"malloc(pool)", "mmap failed", "malloc(max)">>
  /\ state = "Active"
  /\ ~is_mmap
  /\ size > MMAP_THRESHOLD

\* C14: state goes from "Uninitialised" to "Active" by MHD_pool_create and
\* from "Active" to "Destroyed" by MHD_pool_destroy and changes in no other
\* way; allocate, reallocate, reset and get_free change neither is_mmap nor
\* the extent of the buffer nor size nor state; MHD_pool_destroy of a pool
\* releases the buffer once, by munmap() if is_mmap and by free() if not,
\* and then frees the handle; MHD_pool_destroy (NULL) does nothing.
C14_Lifecycle ==
  [][/\ state' # state =>
          \/ /\ state = "Uninitialised" /\ state' = "Active"
             /\ last'.op = "create"
          \/ /\ state = "Active" /\ state' = "Destroyed"
             /\ last'.op = "destroy"
     /\ last'.op \in {"allocate", "reallocate", "reset", "get_free"} =>
          /\ state' = state
          /\ is_mmap' = is_mmap
          /\ size' = size
          /\ DOMAIN memory' = DOMAIN memory
     /\ (last'.op = "destroy" /\ state = "Active") =>
          /\ state' = "Destroyed"
          /\ last'.os = <<IF is_mmap THEN "munmap" ELSE "free(memory)",
                          "free(pool)">>
     /\ (last'.op = "destroy" /\ state # "Active") =>
          /\ last'.os = <<>>
          /\ UNCHANGED <<state, memory, size, pos, end, is_mmap>>
    ]_vars

\* a mapped pool that has served an allocation has been destroyed
C14_Witness ==
  /\ state = "Destroyed"
  /\ last.op = "destroy"
  /\ is_mmap
  /\ pos > 0
  /\ last.os = <<"munmap", "free(pool)">>

\* the block old of old_size bytes is the last one allocated from the head
IsLastBlock(old, old_size) == old_size # 0 /\ pos = roundup(old + old_size)

Min(a, b) == IF a <= b THEN a ELSE b

\* C15: reallocate (old, old_size, new_size) of the last block, with
\* new_size + 2 * ALIGN_SIZE inside size_t, never moves the block: it fails
\* and changes nothing if round(old + new_size) > end; otherwise it returns
\* old, sets pos = round(old + new_size), leaves end, zeroes the bytes
\* [old + new_size, old + old_size) when old_size > new_size and changes no
\* other byte.
C15_InPlace ==
  [][(/\ last'.op = "reallocate" /\ last'.p # NULL
      /\ IsLastBlock(last'.p, last'.n1)
      /\ last'.n2 + 2 * ALIGN_SIZE < SIZE_MOD) =>
       LET old == last'.p
           old_size == last'.n1
           new_size == last'.n2
       IN
       IF roundup(old + new_size) > end
       THEN last'.ret = NULL /\ UNCHANGED <<pos, end, memory>>
       ELSE /\ last'.ret = old
            /\ pos' = roundup(old + new_size)
            /\ end' = end
            /\ \A i \in DOMAIN memory :
                 memory'[i] = IF old + new_size <= i /\ i < old + old_size
                              THEN 0 ELSE memory[i]]_vars

\* C16: reallocate (old, old_size, new_size) of a block of the head that is
\* not the last one, with new_size + 2 * ALIGN_SIZE inside size_t, fails
\* and changes nothing if round(new_size) > end - pos; otherwise it returns
\* memory + pos, which is not old, adds round(new_size) to pos, leaves end,
\* leaves in the new block the bytes the old block held and leaves the
\* old_size bytes of the old block zero, having written to the buffer only.
C16_Moved ==
  [][(/\ last'.op = "reallocate" /\ last'.p # NULL
      /\ ~IsLastBlock(last'.p, last'.n1)
      /\ last'.n2 + 2 * ALIGN_SIZE < SIZE_MOD) =>
       LET old == last'.p
           old_size == last'.n1
           new_size == last'.n2
       IN
       IF roundup(new_size) > end - pos
       THEN last'.ret = NULL /\ UNCHANGED <<pos, end, memory>>
       ELSE /\ ~overrun'
            /\ last'.ret = pos
            /\ last'.ret # old
            /\ pos' = pos + roundup(new_size)
            /\ end' = end
            /\ \A i \in 0 .. (Min(old_size, new_size) - 1) :
                 memory'[pos + i] = memory[old + i]
            /\ \A i \in 0 .. (old_size - 1) : memory'[old + i] = 0]_vars

\* C17: between two resets no call raises end, and no call lowers pos but a
\* reallocate that shrinks the last block in place (new_size < old_size).
C17_Monotonic ==
  [][last'.op \in {"allocate", "reallocate", "get_free"} =>
       /\ end' <= end
       /\ pos' < pos =>
            (/\ last'.op = "reallocate"
             /\ last'.ret = last'.p
             /\ IsLastBlock(last'.p, last'.n1)
             /\ last'.n2 < last'.n1)]_vars

\* C18: reallocate returns NULL when new_size + 2 * ALIGN_SIZE leaves
\* size_t, and when it returns a block r, r + new_size, taken in the
\* integers, is at most end.
C18_NoWrap ==
  [][last'.op = "reallocate" =>
       /\ last'.n2 + 2 * ALIGN_SIZE >= SIZE_MOD => last'.ret = NULL
       /\ last'.ret # NULL => last'.ret + last'.n2 <= end']_vars

\* C19: a reallocate that succeeds writes no byte outside the old block
\* [old, old + old_size) and the block it returns [r, r + round(new_size)),
\* so no byte at or after the pos it leaves, and no byte outside the buffer.
C19_WritesInside ==
  [][(last'.op = "reallocate" /\ last'.ret # NULL) =>
       LET old == last'.p
           r == last'.ret
       IN
       /\ ~overrun'
       /\ \A i \in DOMAIN memory :
            memory'[i] # memory[i] =>
              /\ \/ old # NULL /\ old <= i /\ i < old + last'.n1
                 \/ r <= i /\ i < r + roundup(last'.n2)
              /\ i < pos']_vars

\* C20: a pointer that allocate (size, false) or reallocate has returned,
\* for any size, 0 too, satisfies with that size the assertions at the
\* entry of reallocate.
C20_CanBeReallocated ==
  (/\ last.op \in {"allocate", "reallocate"}
   /\ ~last.from_end
   /\ last.ret # NULL) =>
    ReallocAsserts(last.ret,
                   IF last.op = "allocate" THEN last.n1 ELSE last.n2)

(* ---- C21 ---------------------------------------------------------------- *)

\* the offsets of the colons among the decoded bytes
Colons == {i \in 0 .. (Len(auth.decoded) - 1) : auth.decoded[i + 1] = COLON}

\* the request has no Basic header
NoBasicHeader ==
  auth.rq.null \/ auth.rq.auth_type # "MHD_AUTHTYPE_BASIC"
    \/ auth.rq.bauth.null

\* the token of the header is empty
TokenEmpty == auth.rq.bauth.str_null \/ auth.rq.bauth.len = 0

\* decoding yields nothing
DecodedNothing == auth.decoded_null \/ Len(auth.decoded) = 0

\* the allocation of the result failed
MallocFailed ==
  \E i \in DOMAIN auth.os : auth.os[i] = "malloc(ret) failed"

\* the number of times the decoded buffer was freed
Frees == Cardinality({i \in DOMAIN auth.os : auth.os[i] = "free(decoded)"})

\* the result for decoded bytes of length L: the user name is the bytes
\* before the first colon (all of them without a colon), the password the
\* bytes after it (NULL and 0 without a colon), each followed by a zero
\* byte that lies in the L + 1 bytes after the struct
ResultAsStated ==
  LET d == auth.decoded
      L == Len(d)
      b == auth.bytes
  IN  /\ ~auth.ret_null
      /\ ~auth.fault
      /\ Len(b) = L + 1
      /\ IF Colons = {}
         THEN /\ auth.ret_username_len = L
              /\ SubSeq(b, 1, L) = d
              /\ b[L + 1] = 0
              /\ auth.ret_password = NULL
              /\ auth.ret_password_len = 0
         ELSE LET k == CHOOSE i \in Colons : \A j \in Colons : i <= j
              IN  /\ auth.ret_username_len = k
                  /\ SubSeq(b, 1, k) = SubSeq(d, 1, k)
                  /\ b[k + 1] = 0
                  /\ auth.ret_password = k + 1
                  /\ auth.ret_password_len = L - (k + 1)
                  /\ SubSeq(b, k + 2, L) = SubSeq(d, k + 2, L)
                  /\ b[L + 1] = 0
                  /\ auth.ret_username_len + 1 + auth.ret_password_len = L

\* the decoded buffer, when BASE64Decode returned one, was freed exactly
\* once and no other free of it was made
FreedOnce ==
  /\ ~auth.fault
  /\ IF auth.decoded_null THEN Frees = 0 /\ auth.dstate = "none"
     ELSE Frees = 1 /\ auth.dstate = "freed"

\* C21 as stated: MHD_basic_auth_get_username_password3 returns NULL when
\* there is no Basic header, the token is empty or decoding yields nothing;
\* in every other case it returns the user name and the password described
\* by ResultAsStated; the decoded buffer is freed exactly once on every
\* return path.
C21_AsStated ==
  auth.pc = "done" =>
    /\ (auth.result = "NULL")
         <=> (NoBasicHeader \/ TokenEmpty \/ DecodedNothing)
    /\ (auth.result # "NULL") => ResultAsStated
    /\ FreedOnce

\* C21 amended: MHD_basic_auth_get_username_password3 returns NULL when
\* there is no Basic header, the token is empty, decoding yields nothing or
\* the allocation of the result fails; in every other case it returns the
\* user name and the password described by ResultAsStated; on every return
\* path the decoded buffer, when there is one, has been freed exactly once.
C21_UsernamePassword ==
  auth.pc = "done" =>
    /\ (auth.result = "NULL")
         <=> (NoBasicHeader \/ TokenEmpty \/ DecodedNothing \/ MallocFailed)
    /\ (auth.result # "NULL") => ResultAsStated
    /\ FreedOnce

\* C21 witness: the function has returned a result for decoded bytes with
\* two colons, a user name and a password that are not empty.
C21_Witness ==
  /\ auth.pc = "done"
  /\ auth.result = "ret"
  /\ Cardinality(Colons) >= 2
  /\ auth.ret_username_len > 0
  /\ auth.ret_password_len > 0

====
